---- MODULE Spec2Model ----
(***************************************************************************)
(* Model of the lexer of haneul (src/src/lexer.rs).                        *)
(*                                                                         *)
(* A character is a string; NUL stands for '\0' and EAcute for a non-ASCII *)
(* letter that takes two bytes in UTF-8.  A source is a sequence of        *)
(* characters.  String::len() counts bytes, chars().nth(i) counts          *)
(* characters; the model keeps both.                                       *)
(***************************************************************************)
EXTENDS Integers, Sequences, FiniteSets, TLC

\* ------------------------------------------------------------------ bounds
MaxLen == 2
MaxTokens == 3

\* -------------------------------------------------------------- characters
NUL == "NUL"
EAcute == "U+00E9"
Panic == "PANIC"
NoToken == [text |-> <<>>, kind |-> "None"]

Digits == {"0", "1", "2", "3", "4", "5", "6", "7", "8", "9"}
Lower == {"a", "b", "c", "d", "e", "f", "g", "h", "i", "j", "k", "l", "m",
          "n", "o", "p", "q", "r", "s", "t", "u", "v", "w", "x", "y", "z"}
Upper == {"A", "B", "C", "D", "E", "F", "G", "H", "I", "J", "K", "L", "M",
          "N", "O", "P", "Q", "R", "S", "T", "U", "V", "W", "X", "Y", "Z"}

\* char::is_ascii_digit
is_ascii_digit(c) == c \in Digits

\* char::is_alphanumeric is the Unicode property: it holds of non-ASCII letters too
is_alphanumeric(c) == c \in Lower \cup Upper \cup Digits \cup {EAcute}

\* char::len_utf8
len_utf8(c) == IF c = EAcute THEN 2 ELSE 1

RECURSIVE str_len(_)
\* String::len(): the length in bytes
str_len(s) == IF s = <<>> THEN 0 ELSE len_utf8(Head(s)) + str_len(Tail(s))

\* chars().nth(i): the i-th character (from 0), or Panic where unwrap() meets None
chars_nth(s, i) == IF i < Len(s) THEN s[i + 1] ELSE Panic

\* ------------------------------------------------------------------ inputs
Alphabet == {"+", "\n", NUL, "=", "!", "\"", "5", ".", "I", "F", "_",
             "#", " ", "%", "@", EAcute}

Texts(n) == UNION {[1..k -> Alphabet] : k \in 0..n}

Examples ==
    { <<"L", "E", "T", " ", "x", " ", "=", " ", "5", "\n">>,
      <<"3", ".", "1", "4", ".", "5">>,
      <<"\"", "1", "0", "0", "%", "\"">>,
      <<"L", "E", "T", "T", "E", "R">>,
      <<"l", "e", "t">>,
      <<"L", "e", "t">>,
      <<"I", "F", "X">>,
      <<"E", "N", "D", "W", "H", "I", "L", "E">>,
      <<"<", "=", "=">>,
      <<">", "=">>,
      <<">", "5">>,
      <<"\"", "\\", "%", "\"">>,
      <<"!", "\t">>,
      <<"#", " ", "c", "o", "m", "m", "e", "n", "t", "\n",
        "P", "R", "I", "N", "T", " ", "1", "\n">>,
      <<"a", "_", "b">> }

\* ------------------------------------------------------------------- state
VARIABLES source, current_char, current_pos,
          status, message, result, token_start, tokens, peeked, last_op, nadvance

vars == <<source, current_char, current_pos,
          status, message, result, token_start, tokens, peeked, last_op, nadvance>>

\* The Lexer as a value the operations work on.
Lexer == [current_char |-> current_char, current_pos |-> current_pos,
          status |-> status, message |-> message]

\* new appending the newline to an empty source only
new_bare(text) == IF text = <<>> THEN <<"\n">> ELSE text

\* Lexer::new: push('\n'), current_char = first character, current_pos = 0
new(text) == Append(text, "\n")

\* Lexer::next_char
next_char(src, l) ==
    LET p == l.current_pos + 1 IN
    IF p > str_len(src)
    THEN [l EXCEPT !.current_pos = p, !.current_char = NUL]
    ELSE IF chars_nth(src, p) = Panic
         THEN [l EXCEPT !.current_pos = p, !.status = "unwrap_panic"]
         ELSE [l EXCEPT !.current_pos = p, !.current_char = chars_nth(src, p)]

\* peek with the index off by one: it reads the current character
peek_current(src, l) ==
    IF l.current_pos >= str_len(src)
    THEN NUL
    ELSE chars_nth(src, l.current_pos)

\* peek looking two characters ahead
peek_two(src, l) ==
    IF l.current_pos + 2 >= str_len(src)
    THEN NUL
    ELSE chars_nth(src, l.current_pos + 2)

\* Lexer::peek
peek(src, l) ==
    IF l.current_pos + 1 >= str_len(src)
    THEN NUL
    ELSE chars_nth(src, l.current_pos + 1)

\* die with a message that leaves out what was formatted into it
die_plain(l, msg) == [l EXCEPT !.status = "die", !.message = <<"Error while lexing: ">>]

\* Lexer::die: panic!("Error while lexing: {}", message)
die(l, msg) == [l EXCEPT !.status = "die", !.message = <<"Error while lexing: ">> \o msg]

RECURSIVE skip_whitespace_newline(_, _)
\* skip_whitespace taking the newline for whitespace too
skip_whitespace_newline(src, l) ==
    IF l.status = "ok" /\ l.current_char \in {" ", "\t", "\r", "\n"}
    THEN skip_whitespace_newline(src, next_char(src, l))
    ELSE l

RECURSIVE skip_whitespace(_, _)
\* Lexer::skip_whitespace
skip_whitespace(src, l) ==
    IF l.status = "ok" /\ l.current_char \in {" ", "\t", "\r"}
    THEN skip_whitespace(src, next_char(src, l))
    ELSE l

RECURSIVE skip_comment_loop(_, _)
skip_comment_loop(src, l) ==
    IF l.status = "ok" /\ l.current_char # "\n"
    THEN skip_comment_loop(src, next_char(src, l))
    ELSE l

\* Lexer::skip_comment
skip_comment(src, l) ==
    IF l.status = "ok" /\ l.current_char = "#"
    THEN skip_comment_loop(src, l)
    ELSE l

\* Token::new
Token(text, kind) == [text |-> text, kind |-> kind]

Returned(l, tok) == [lexer |-> l, token |-> tok]

\* Lexer::is_keyword: the first keyword of the table equal to the whole text
keywords ==
    << <<<<"L", "A", "B", "E", "L">>, "Label">>,
       <<<<"G", "O", "T", "O">>, "Goto">>,
       <<<<"P", "R", "I", "N", "T">>, "Print">>,
       <<<<"I", "N", "P", "U", "T">>, "Input">>,
       <<<<"L", "E", "T">>, "Let">>,
       <<<<"I", "F">>, "If">>,
       <<<<"T", "H", "E", "N">>, "Then">>,
       <<<<"E", "N", "D", "I", "F">>, "Endif">>,
       <<<<"W", "H", "I", "L", "E">>, "While">>,
       <<<<"R", "E", "P", "E", "A", "T">>, "Repeat">>,
       <<<<"E", "N", "D", "W", "H", "I", "L", "E">>, "EndWhile">> >>

IsPrefix(p, s) == Len(p) <= Len(s) /\ SubSeq(s, 1, Len(p)) = p

\* is_keyword matching a keyword at the start of the text instead of the whole text
is_keyword_prefix(token_text) ==
    LET hits == {i \in 1..Len(keywords) : IsPrefix(keywords[i][1], token_text)} IN
    IF hits = {} THEN "None"
    ELSE keywords[CHOOSE i \in hits : \A j \in hits : i <= j][2]

is_keyword(token_text) ==
    LET hits == {i \in 1..Len(keywords) : token_text = keywords[i][1]} IN
    IF hits = {} THEN "None"
    ELSE keywords[CHOOSE i \in hits : \A j \in hits : i <= j][2]

\* The arms '=', '>' and '<' of get_token: one character of lookahead
relop_arm(src, l, two, one) ==
    LET p == peek(src, l) IN
    IF p = Panic THEN Returned([l EXCEPT !.status = "unwrap_panic"], NoToken)
    ELSE IF p = "="
    THEN LET l1 == next_char(src, l) IN
         IF l1.status # "ok" THEN Returned(l1, NoToken)
         ELSE Returned(l1, Token(<<l.current_char, l1.current_char>>, two))
    ELSE Returned(l, Token(<<l.current_char>>, one))

\* The arm '!' of get_token
bang_arm(src, l) ==
    LET p == peek(src, l) IN
    IF p = Panic THEN Returned([l EXCEPT !.status = "unwrap_panic"], NoToken)
    ELSE IF p = "="
    THEN LET l1 == next_char(src, l) IN
         IF l1.status # "ok" THEN Returned(l1, NoToken)
         ELSE Returned(l1, Token(<<l.current_char, l1.current_char>>, "NotEq"))
    ELSE Returned(die(l, <<"Expected !=, got !", p>>), NoToken)

RECURSIVE string_loop_late(_, _, _)
\* the string loop pushing after the advance instead of before it
string_loop_late(src, l, string) ==
    IF l.status # "ok" THEN Returned(l, NoToken)
    ELSE IF l.current_char # "\""
    THEN LET l1 == next_char(src, l) IN
         string_loop_late(src, l1,
             IF l1.status = "ok" THEN Append(string, l1.current_char) ELSE string)
    ELSE Returned(l, Token(string, "Sting"))

RECURSIVE string_loop(_, _, _)
\* while self.current_char != '"' { string.push(self.current_char); self.next_char(); }
string_loop(src, l, string) ==
    IF l.status # "ok" THEN Returned(l, NoToken)
    ELSE IF l.current_char # "\""
    THEN string_loop(src, next_char(src, l), Append(string, l.current_char))
    ELSE Returned(l, Token(string, "Sting"))

\* The arm '"' of get_token
string_arm(src, l) == string_loop(src, next_char(src, l), <<>>)

RECURSIVE number_loop_stale(_, _, _, _)
\* the number loop without is_float = true after a '.' was pushed
number_loop_stale(src, l, raw_num, is_float) ==
    LET p == peek(src, l) IN
    IF p = Panic THEN Returned([l EXCEPT !.status = "unwrap_panic"], NoToken)
    ELSE IF is_ascii_digit(p) \/ (p = "." /\ ~is_float)
    THEN LET l1 == next_char(src, l) IN
         IF l1.status # "ok" THEN Returned(l1, NoToken)
         ELSE number_loop_stale(src, l1, Append(raw_num, l1.current_char), is_float)
    ELSE Returned(l, Token(raw_num, IF is_float THEN "Float" ELSE "Int"))

RECURSIVE number_loop(_, _, _, _)
\* while self.peek().is_ascii_digit() || (self.peek() == '.' && !is_float)
number_loop(src, l, raw_num, is_float) ==
    LET p == peek(src, l) IN
    IF p = Panic THEN Returned([l EXCEPT !.status = "unwrap_panic"], NoToken)
    ELSE IF is_ascii_digit(p) \/ (p = "." /\ ~is_float)
    THEN LET l1 == next_char(src, l) IN
         IF l1.status # "ok" THEN Returned(l1, NoToken)
         ELSE number_loop(src, l1, Append(raw_num, l1.current_char),
                          is_float \/ l1.current_char = ".")
    ELSE Returned(l, Token(raw_num, IF is_float THEN "Float" ELSE "Int"))

\* The arm '0'..='9' | '.' of get_token
number_arm(src, l) == number_loop(src, l, <<l.current_char>>, l.current_char = ".")

RECURSIVE ident_loop(_, _, _)
\* while self.peek().is_alphanumeric()
ident_loop(src, l, ident) ==
    LET p == peek(src, l) IN
    IF p = Panic THEN Returned([l EXCEPT !.status = "unwrap_panic"], NoToken)
    ELSE IF is_alphanumeric(p)
    THEN LET l1 == next_char(src, l) IN
         IF l1.status # "ok" THEN Returned(l1, NoToken)
         ELSE ident_loop(src, l1, Append(ident, l1.current_char))
    ELSE Returned(l, Token(ident,
             IF is_keyword(ident) # "None" THEN is_keyword(ident) ELSE "Ident"))

\* The arm 'a'..='z' | 'A'..='Z' | '_' of get_token
ident_arm(src, l) == ident_loop(src, l, <<l.current_char>>)

\* The match of get_token on the current character
classify(src, l) ==
    LET c == l.current_char
        current_str == <<c>>
    IN  CASE c = "+" -> Returned(l, Token(current_str, "Plus"))
          [] c = "-" -> Returned(l, Token(current_str, "Minus"))
          [] c = "*" -> Returned(l, Token(current_str, "Asterisk"))
          [] c = "/" -> Returned(l, Token(current_str, "Slash"))
          [] c = "\n" -> Returned(l, Token(current_str, "Newline"))
          [] c = NUL -> Returned(l, Token(current_str, "Eof"))
          [] c = "=" -> relop_arm(src, l, "EqEq", "Eq")
          [] c = ">" -> relop_arm(src, l, "GtEq", "Gt")
          [] c = "<" -> relop_arm(src, l, "LtEq", "Lt")
          [] c = "!" -> bang_arm(src, l)
          [] c = "\"" -> string_arm(src, l)
          [] c \in Digits \cup {"."} -> number_arm(src, l)
          [] c \in Lower \cup Upper \cup {"_"} -> ident_arm(src, l)
          [] OTHER -> Returned(die(l, <<"unknown token: ", c>>), NoToken)

\* The cursor after skip_whitespace and skip_comment: where the match starts
skipped(src, l) == skip_comment(src, skip_whitespace(src, l))

\* Lexer::get_token
get_token(src, l) ==
    LET l2 == skipped(src, l) IN
    IF l2.status # "ok" THEN Returned(l2, NoToken) ELSE classify(src, l2)

\* ----------------------------------------------------------------- actions
Init ==
    /\ source \in {new(t) : t \in Texts(MaxLen) \cup Examples}
    /\ current_char = source[1]
    /\ current_pos = 0
    /\ status = "ok"
    /\ message = <<>>
    /\ result = NoToken
    /\ token_start = 0
    /\ tokens = <<>>
    /\ peeked = "none"
    /\ last_op = "new"
    /\ nadvance = 0

\* A call of get_token by the caller.  tokens is the history of the tokens
\* returned, each with the position its match started on and the cursor it left.
GetToken ==
    /\ status = "ok"
    /\ Len(tokens) < MaxTokens
    /\ LET r == get_token(source, Lexer)
           l == r.lexer
       IN  /\ current_char' = l.current_char
           /\ current_pos' = l.current_pos
           /\ status' = l.status
           /\ message' = l.message
           /\ result' = r.token
           /\ token_start' = skipped(source, Lexer).current_pos
           /\ tokens' = IF l.status = "ok"
                        THEN Append(tokens,
                                 [text |-> r.token.text, kind |-> r.token.kind,
                                  start |-> skipped(source, Lexer).current_pos,
                                  end |-> l.current_pos])
                        ELSE tokens
    /\ last_op' = "get_token"
    /\ peeked' = "none"
    /\ UNCHANGED <<source, nadvance>>

\* A call of next_char by the caller (it is pub).
NextChar ==
    /\ status = "ok"
    /\ LET l == next_char(source, Lexer)
       IN  /\ current_char' = l.current_char
           /\ current_pos' = l.current_pos
           /\ status' = l.status
           /\ message' = l.message
    /\ last_op' = "next_char"
    /\ nadvance' = nadvance + 1
    /\ peeked' = "none"
    /\ UNCHANGED <<source, result, token_start, tokens>>

\* A call of peek by the caller (it is pub).  peeked is what the last call
\* returned when that call was peek.
Peek ==
    /\ status = "ok"
    /\ LET p == peek(source, Lexer)
       IN  /\ peeked' = p
           /\ status' = IF p = Panic THEN "unwrap_panic" ELSE status
    /\ last_op' = "peek"
    /\ UNCHANGED <<source, current_char, current_pos, message, result,
                   token_start, tokens, nadvance>>

Next == GetToken \/ NextChar \/ Peek

Spec == Init /\ [][Next]_vars

\* ------------------------------------------------------------------ claims
\* What the claims say of the buffer, stated on the buffer itself.
CharAt(src, i) == IF i >= 0 /\ i < Len(src) THEN src[i + 1] ELSE NUL
Following(src, i) == CharAt(src, i + 1)

\* A drain: the caller has called get_token (and the pure peek) only.
Drain == nadvance = 0

\* The number of buffer characters a token stands for: a string has two quotes.
SpanLen(t) == IF t.kind = "Sting" THEN Len(t.text) + 2 ELSE Len(t.text)

TokenForming == {"+", "-", "*", "/", "\n", "=", ">", "<", "!", "\"", ".", "_",
                 "#", " ", "\t", "\r", "%", "\\"} \cup Digits \cup Lower \cup Upper

\* C1: a drain (get_token called again and again from construction) returns
\* Eof: since every other token stands for at least one buffer character and no
\* character is tokenized twice, a drain that has returned more tokens than the
\* buffer has characters has returned Eof.
C1_DrainReachesEof ==
    (Drain /\ status = "ok" /\ Len(tokens) > Len(source))
        => \E i \in 1..Len(tokens) : tokens[i].kind = "Eof"

\* C2: every get_token call that returns a token leaves current_pos on the
\* first character after the last character consumed for that token.
C2_CursorAfterToken ==
    \A i \in 1..Len(tokens) :
        tokens[i].kind # "Eof" => tokens[i].end = tokens[i].start + SpanLen(tokens[i])

\* C3: in a drain of a source of token-forming characters, whitespace and
\* comments no character is tokenized twice: each token starts at or after the
\* first position after the token before it.
C3_NoCharacterTwice ==
    (Drain /\ \A k \in 1..Len(source) : source[k] \in TokenForming)
        => \A i \in 1..(Len(tokens) - 1) :
               tokens[i + 1].start >= tokens[i].start + SpanLen(tokens[i])

LetExample == <<"L", "E", "T", " ", "x", " ", "=", " ", "5", "\n">>
LetExpected ==
    << [text |-> <<"L", "E", "T">>, kinds |-> {"Let"}],
       [text |-> <<"x">>, kinds |-> {"Ident"}],
       [text |-> <<"=">>, kinds |-> {"Eq"}],
       [text |-> <<"5">>, kinds |-> {"Int", "Float"}],
       [text |-> <<"\n">>, kinds |-> {"Newline"}],
       [text |-> <<NUL>>, kinds |-> {"Eof"}] >>

\* C4: draining the text LET x = 5 and a newline yields Let("LET"), Ident("x"),
\* Eq("="), a number "5", Newline, Eof in that order and nothing else: the
\* tokens returned so far are always a prefix of these six.
C4_LetExampleTokens ==
    (Drain /\ source = new(LetExample))
        => \A i \in 1..Len(tokens) :
               /\ i <= Len(LetExpected)
               /\ tokens[i].text = LetExpected[i].text
               /\ tokens[i].kind \in LetExpected[i].kinds

TwoCharKind(c) == CASE c = "=" -> "EqEq" [] c = ">" -> "GtEq" [] c = "<" -> "LtEq"
OneCharKind(c) == CASE c = "=" -> "Eq" [] c = ">" -> "Gt" [] c = "<" -> "Lt"

\* C5: a token matched on '=', '>' or '<' is the two-character operator with
\* lexeme c= when the next character is '=', and then no later call returns a
\* token starting on that trailing '='; otherwise it is the one-character
\* operator with lexeme c.
C5_RelationalOperators ==
    \A i \in 1..Len(tokens) :
        LET t == tokens[i]
            c == CharAt(source, t.start)
        IN  c \in {"=", ">", "<"} =>
                IF Following(source, t.start) = "="
                THEN /\ t.kind = TwoCharKind(c)
                     /\ t.text = <<c, "=">>
                     /\ \A j \in (i + 1)..Len(tokens) : tokens[j].start # t.start + 1
                ELSE /\ t.kind = OneCharKind(c)
                     /\ t.text = <<c>>

\* C6: get_token matching '!' returns NotEq("!=") when the next character is
\* '=', and otherwise returns no token and dies with a message that ends in the
\* next character.
C6_BangNeedsEq ==
    (last_op = "get_token" /\ CharAt(source, token_start) = "!")
        => IF Following(source, token_start) = "="
           THEN /\ status = "ok"
                /\ result = [text |-> <<"!", "=">>, kind |-> "NotEq"]
                /\ current_pos = token_start + 1
           ELSE /\ status = "die"
                /\ result = NoToken
                /\ message[1] = "Error while lexing: "
                /\ message[Len(message)] = Following(source, token_start)

\* C6 witness: a bare '!' before the appended newline has made get_token die.
C6_Witness ==
    /\ status = "die"
    /\ CharAt(source, token_start) = "!"
    /\ token_start = Len(source) - 2
    /\ message[Len(message)] = "\n"

\* The position of the first '"' after position s, or the buffer length.
ClosingQuote(src, s) ==
    LET qs == {j \in (s + 1)..(Len(src) - 1) : CharAt(src, j) = "\""} IN
    IF qs = {} THEN Len(src) ELSE CHOOSE j \in qs : \A k \in qs : j <= k

\* The characters between the opening quote at s and the closing quote.
Body(src, s) == SubSeq(src, s + 2, ClosingQuote(src, s))

RECURSIVE Escaped(_)
Escaped(s) ==
    IF s = <<>> THEN <<>>
    ELSE (CASE Head(s) = "%" -> <<"\\", "%">>
            [] Head(s) = "\\" -> <<"\\", "\\">>
            [] OTHER -> <<Head(s)>>) \o Escaped(Tail(s))

\* C7 as stated: the lexeme of a string token is the body between the quotes
\* with every '%' replaced by backslash-percent and every backslash doubled.
C7_LexemeEscaped ==
    \A i \in 1..Len(tokens) :
        CharAt(source, tokens[i].start) = "\""
            => tokens[i].text = Escaped(Body(source, tokens[i].start))

\* C7 as amended: a token matched on '"' is a string token whose lexeme is the
\* body between the opening quote and the next '"', every character copied
\* verbatim and in order ('%' and backslash included, unescaped), and the cursor
\* is left on the closing quote.
C7_LexemeVerbatim ==
    \A i \in 1..Len(tokens) :
        CharAt(source, tokens[i].start) = "\""
            => /\ tokens[i].kind = "Sting"
               /\ tokens[i].text = Body(source, tokens[i].start)
               /\ tokens[i].end = ClosingQuote(source, tokens[i].start)

\* C7 witness: a string token whose body holds a '%' has been returned.
C7_Witness ==
    \E i \in 1..Len(tokens) :
        /\ tokens[i].kind = "Sting"
        /\ \E k \in 1..Len(tokens[i].text) : tokens[i].text[k] = "%"
        /\ \E k \in 1..Len(tokens[i].text) : tokens[i].text[k] # "%"

\* C8: get_token matching an opening '"' with no '"' in the rest of the buffer
\* ends in a lexical error (die) and returns no token.
C8_UnterminatedIsLexError ==
    (/\ last_op = "get_token"
     /\ CharAt(source, token_start) = "\""
     /\ ClosingQuote(source, token_start) = Len(source))
        => status = "die" /\ result = NoToken

\* The end of the number that starts at position s: the first position that
\* holds neither a digit nor the first '.' of the number.
RECURSIVE NumberEnd(_, _, _)
NumberEnd(src, j, dot) ==
    LET c == CharAt(src, j) IN
    IF c \in Digits THEN NumberEnd(src, j + 1, dot)
    ELSE IF c = "." /\ ~dot THEN NumberEnd(src, j + 1, TRUE)
    ELSE j

\* C9: a token matched on a digit or '.' has as lexeme the maximal run of
\* digits with at most one '.', and a second '.' that ended it starts the
\* token of the following call (so 3.14.5 gives "3.14" and then ".5").
C9_NumberThenSecondDot ==
    \A i \in 1..Len(tokens) :
        LET t == tokens[i]
            c == CharAt(source, t.start)
            e == NumberEnd(source, t.start + 1, c = ".")
        IN  c \in Digits \cup {"."} =>
                /\ t.text = SubSeq(source, t.start + 1, e)
                /\ (Drain /\ CharAt(source, e) = "." /\ i < Len(tokens))
                       => /\ tokens[i + 1].start = e
                          /\ tokens[i + 1].text[1] = "."

ElevenKeywords ==
    { <<<<"L", "A", "B", "E", "L">>, "Label">>, <<<<"G", "O", "T", "O">>, "Goto">>,
      <<<<"P", "R", "I", "N", "T">>, "Print">>, <<<<"I", "N", "P", "U", "T">>, "Input">>,
      <<<<"L", "E", "T">>, "Let">>, <<<<"I", "F">>, "If">>,
      <<<<"T", "H", "E", "N">>, "Then">>, <<<<"E", "N", "D", "I", "F">>, "Endif">>,
      <<<<"W", "H", "I", "L", "E">>, "While">>,
      <<<<"R", "E", "P", "E", "A", "T">>, "Repeat">>,
      <<<<"E", "N", "D", "W", "H", "I", "L", "E">>, "EndWhile">> }

\* C10: a token matched on a letter or '_' has as lexeme the whole captured
\* text (start to cursor, case preserved, no letter or digit following it); its
\* kind is the keyword's when the whole text is one of the eleven uppercase
\* keywords, and Ident otherwise.
C10_KeywordIffWholeText ==
    \A i \in 1..Len(tokens) :
        LET t == tokens[i]
            captured == SubSeq(source, t.start + 1, t.end + 1)
        IN  CharAt(source, t.start) \in Lower \cup Upper \cup {"_"} =>
                /\ t.text = captured
                /\ Following(source, t.end) \notin Lower \cup Upper \cup Digits
                /\ \A kw \in ElevenKeywords : t.kind = kw[2] <=> captured = kw[1]
                /\ (\A kw \in ElevenKeywords : captured # kw[1]) <=> t.kind = "Ident"

\* C10 witness: LETTER, which starts with the keyword LET, has been returned
\* as the single identifier LETTER.
C10_Witness ==
    \E i \in 1..Len(tokens) :
        /\ tokens[i].kind = "Ident"
        /\ tokens[i].text = <<"L", "E", "T", "T", "E", "R">>

CommentExample == <<"#", " ", "c", "o", "m", "m", "e", "n", "t", "\n",
                    "P", "R", "I", "N", "T", " ", "1", "\n">>
CommentExpected ==
    << [text |-> <<"\n">>, kinds |-> {"Newline"}],
       [text |-> <<"P", "R", "I", "N", "T">>, kinds |-> {"Print"}],
       [text |-> <<"1">>, kinds |-> {"Int", "Float"}],
       [text |-> <<"\n">>, kinds |-> {"Newline"}],
       [text |-> <<NUL>>, kinds |-> {"Eof"}] >>

\* C11: a get_token call whose current character after the whitespace is '#'
\* returns Newline with the cursor on the first newline after the '#' (nothing
\* of the comment is in a token), and so a drain of '# comment', newline,
\* 'PRINT 1', newline yields Newline, Print, a number "1", Newline, Eof.
C11_CommentSuppressed ==
    /\ (status = "ok" /\ skip_whitespace(source, Lexer).current_char = "#")
           => LET r == get_token(source, Lexer)
                  h == skip_whitespace(source, Lexer).current_pos
              IN  /\ r.lexer.status = "ok"
                  /\ r.token = [text |-> <<"\n">>, kind |-> "Newline"]
                  /\ CharAt(source, r.lexer.current_pos) = "\n"
                  /\ \A k \in h..(r.lexer.current_pos - 1) : CharAt(source, k) # "\n"
    /\ (Drain /\ source = new(CommentExample))
           => \A i \in 1..Len(tokens) :
                  /\ i <= Len(CommentExpected)
                  /\ tokens[i].text = CommentExpected[i].text
                  /\ tokens[i].kind \in CommentExpected[i].kinds

KnownStart == {"+", "-", "*", "/", "\n", NUL, "=", ">", "<", "!", "\"", ".", "_"}
                  \cup Digits \cup Lower \cup Upper

\* C12: get_token whose match starts on a character that begins no token
\* returns no token and dies with a message that ends in that character.
C12_UnknownDies ==
    (last_op = "get_token" /\ CharAt(source, token_start) \notin KnownStart)
        => /\ status = "die"
           /\ result = NoToken
           /\ message = <<"Error while lexing: ", "unknown token: ",
                          CharAt(source, token_start)>>

\* C12: get_token dies on a character that begins no token, as above, and the
\* error is fatal: the state a died call leaves never changes again, so no
\* further token is produced.
C12_UnknownCharacterFatal ==
    [] C12_UnknownDies /\ [][status # "die"]_vars

\* C12 witness: get_token has died on a non-ASCII letter that starts the text.
C12_Witness ==
    /\ status = "die"
    /\ token_start = 0
    /\ CharAt(source, 0) = EAcute
    /\ message[Len(message)] = EAcute

\* C14: after construction and after every next_char call the call has
\* completed normally and current_char is the buffer character at current_pos,
\* or NUL when current_pos is at or past the length of the buffer.
C14_CursorInvariant ==
    last_op \in {"new", "next_char"}
        => /\ status = "ok"
           /\ current_char = CharAt(source, current_pos)

\* C15: peek returns the buffer character at current_pos + 1, or NUL when that
\* position is at or past the length of the buffer, and completes normally.
C15_PeekOneAhead ==
    last_op = "peek"
        => /\ status = "ok"
           /\ peeked = CharAt(source, current_pos + 1)

Blank == {" ", "\t", "\r"}

RECURSIVE IdentEnd(_, _)
IdentEnd(src, j) ==
    IF CharAt(src, j) \in Lower \cup Upper \cup Digits \cup {EAcute}
    THEN IdentEnd(src, j + 1)
    ELSE j

\* C17: a token matched on a letter or '_' has as lexeme that character and
\* the maximal run of letters and digits after it; a '_' ends it and starts the
\* token of the following call (so a_b gives "a" and then "_b").
C17_IdentifierThenUnderscore ==
    \A i \in 1..Len(tokens) :
        LET t == tokens[i]
            e == IdentEnd(source, t.start + 1)
        IN  CharAt(source, t.start) \in Lower \cup Upper \cup {"_"} =>
                /\ t.text = SubSeq(source, t.start + 1, e)
                /\ (Drain /\ CharAt(source, e) = "_" /\ i < Len(tokens))
                       => /\ tokens[i + 1].start = e
                          /\ tokens[i + 1].text[1] = "_"

Dots(text) == Cardinality({k \in 1..Len(text) : text[k] = "."})

\* C18: every token matched on a digit or '.' is Int or Float; a numeric token
\* is Float exactly when its lexeme holds a '.'; a Float lexeme holds exactly
\* one '.' and digits, an Int lexeme is a non-empty run of digits.
C18_NumericKind ==
    \A i \in 1..Len(tokens) :
        LET t == tokens[i] IN
        /\ CharAt(source, t.start) \in Digits \cup {"."} => t.kind \in {"Int", "Float"}
        /\ t.kind \in {"Int", "Float"} =>
               /\ t.kind = "Float" <=> Dots(t.text) > 0
               /\ Dots(t.text) <= 1
               /\ Len(t.text) > 0
               /\ \A k \in 1..Len(t.text) : t.text[k] \in Digits \cup {"."}

\* C18 witness: a lone '.' has been returned as a Float.
C18_Witness ==
    \E i \in 1..Len(tokens) :
        /\ tokens[i].kind = "Float"
        /\ tokens[i].text = <<".">>

ReplaceAt(src, j, c) == [src EXCEPT ![j + 1] = c]
Probe == {"=", "5", ".", "I", "\"", "\n", " "}

\* What get_token returns and the cursor it leaves do not depend on any
\* character after the one behind the cursor it leaves: get_token has read
\* nothing further ahead than current_pos + 1.
C19_OneAhead ==
    status = "ok"
        => LET r == get_token(source, Lexer) IN
           \A j \in (r.lexer.current_pos + 2)..(Len(source) - 1) : \A c \in Probe :
               get_token(ReplaceAt(source, j, c), Lexer) = r

\* C19: current_pos never decreases, a next_char call increases it by exactly
\* 1, and get_token decides every token on the current character and the one
\* character at current_pos + 1.
C19_NoBacktracking ==
    /\ [][/\ current_pos' >= current_pos
          /\ last_op' = "next_char" => current_pos' = current_pos + 1]_vars
    /\ [] C19_OneAhead

\* C19 witness: a two-character operator has been returned with characters
\* left in the buffer behind the one after the cursor.
C19_Witness ==
    /\ last_op = "get_token"
    /\ result.kind \in {"EqEq", "GtEq", "LtEq", "NotEq"}
    /\ current_pos + 2 < Len(source)

\* C20: whenever get_token enters skip_comment on a '#', skip_comment ends
\* normally with current_char the first newline from the '#', at a position of
\* the buffer (at most length - 1): it neither steps to position length nor
\* meets the NUL sentinel.
C20_CommentEndsOnNewline ==
    (status = "ok" /\ skip_whitespace(source, Lexer).current_char = "#")
        => LET w == skip_whitespace(source, Lexer)
               l == skip_comment(source, w)
           IN  /\ l.status = "ok"
               /\ l.current_char = "\n"
               /\ l.current_pos <= Len(source) - 1
               /\ CharAt(source, l.current_pos) = "\n"
               /\ \A k \in w.current_pos..(l.current_pos - 1) : CharAt(source, k) # "\n"

\* C20 witness: the text is one comment line with no newline of its own, and
\* get_token has skipped it and returned the appended newline.
C20_Witness ==
    /\ last_op = "get_token"
    /\ Drain
    /\ Len(tokens) = 1
    /\ CharAt(source, 0) = "#"
    /\ Len(source) > 2
    /\ \A k \in 0..(Len(source) - 2) : CharAt(source, k) # "\n"
    /\ tokens[1].kind = "Newline"
    /\ current_pos = Len(source) - 1

====
